---- MODULE Spec2Model ----
(***************************************************************************)
(* TheatreMix remote display: the OSC subscription agent thread            *)
(* (spawn_osc_thread), the two mpsc channels and the UI state machine      *)
(* (TheatreMixApp::update / apply_event) of src/src/main.rs.               *)
(*                                                                         *)
(* Time is the monotonic clock (Instant) read in whole seconds.  The two   *)
(* threads exchange no timestamps, so each keeps its own reading: the      *)
(* agent the age of its two timers, the UI the clock value it stamps       *)
(* last_rx with.  Either reading advances at any point, so every step of   *)
(* either thread may take arbitrarily long.                                *)
(***************************************************************************)
EXTENDS Integers, Sequences, FiniteSets, TLC

\* ------------------------------------------------------------------ bounds
MaxTime == 1        \* the UI's clock stops advancing at this many seconds
MaxExpiry == 6      \* largest expiry a peer reports in /subscribeok
MaxCmds == 1        \* set-host commands the UI sends in one run
MaxEvents == 0      \* events still queued when the agent takes a datagram
MaxBundle == 3      \* messages in one inbound bundle (bundle specification)
MaxArgs == 4        \* arguments of one /cuefired message (cue specification)

\* ------------------------------------------------------- program constants
TwoSecs == 2        \* Duration::from_secs(2)
TenSecs == 10       \* Duration::from_secs(10)
SlackMs == 100      \* thread::sleep(Duration::from_millis(100))

Max(a, b) == IF a >= b THEN a ELSE b

\* ---------------------------------------------------------------- OSC data
OscInt(n) == [t |-> "Int", v |-> n]
OscString(s) == [t |-> "String", v |-> s]
OscFloat(n) == [t |-> "Float", v |-> n]

Msg(addr, args) == [addr |-> addr, args |-> args]

NoEvent == [type |-> "None"]
EvSubscribeOk(n) == [type |-> "SubscribeOk", n |-> n]
EvSubscribeFail == [type |-> "SubscribeFail"]
EvThump == [type |-> "Thump"]
EvCueFired(info) == [type |-> "CueFired", info |-> info]
EvError(msg) == [type |-> "Error", msg |-> msg]

\* CueInfo::default(): empty number and text, color None (the empty sequence;
\* Some(c) is <<c>>).
CueInfoDefault == [number |-> "", text |-> "", color |-> <<>>]

\* msg.args.get(i) matched against OscType::String
StringArg(args, i) == i <= Len(args) /\ args[i].t = "String"

\* A clamp that forgets .max(2) and keeps a non-negative expiry as it is
ClampExpiryNoFloor(exp) == Max(exp, 0)

\* (*exp).max(2) as u32: exp is an i32, so the maximum lies in 2 .. 2^31 - 1 and
\* the cast to u32 keeps its value.
ClampExpiry(exp) == Max(exp, 2)

\* A handle_message that returns None for a /cuefired without a string number
handle_message_strict(msg, subscription_expiry) ==
    IF msg.addr = "/subscribeok"
    THEN IF Len(msg.args) >= 1 /\ msg.args[1].t = "Int"
         THEN LET exp == ClampExpiry(msg.args[1].v)
              IN  [expiry |-> exp, ev |-> EvSubscribeOk(exp)]
         ELSE [expiry |-> subscription_expiry, ev |-> NoEvent]
    ELSE IF msg.addr = "/subscribefail"
    THEN [expiry |-> subscription_expiry, ev |-> EvSubscribeFail]
    ELSE IF msg.addr = "/thump"
    THEN [expiry |-> subscription_expiry, ev |-> EvThump]
    ELSE IF msg.addr = "/cuefired" /\ StringArg(msg.args, 1)
    THEN LET info == [number |-> msg.args[1].v,
                      text   |-> IF StringArg(msg.args, 2) THEN msg.args[2].v ELSE "",
                      color  |-> IF StringArg(msg.args, 3) THEN <<msg.args[3].v>> ELSE <<>>]
         IN  [expiry |-> subscription_expiry, ev |-> EvCueFired(info)]
    ELSE [expiry |-> subscription_expiry, ev |-> NoEvent]

\* handle_message(msg, &mut subscription_expiry) -> Option<NetEvent>
handle_message(msg, subscription_expiry) ==
    IF msg.addr = "/subscribeok"
    THEN IF Len(msg.args) >= 1 /\ msg.args[1].t = "Int"
         THEN LET exp == ClampExpiry(msg.args[1].v)
              IN  [expiry |-> exp, ev |-> EvSubscribeOk(exp)]
         ELSE [expiry |-> subscription_expiry, ev |-> NoEvent]
    ELSE IF msg.addr = "/subscribefail"
    THEN [expiry |-> subscription_expiry, ev |-> EvSubscribeFail]
    ELSE IF msg.addr = "/thump"
    THEN [expiry |-> subscription_expiry, ev |-> EvThump]
    ELSE IF msg.addr = "/cuefired"
    THEN LET info == [number |-> IF StringArg(msg.args, 1) THEN msg.args[1].v ELSE "",
                      text   |-> IF StringArg(msg.args, 2) THEN msg.args[2].v ELSE "",
                      color  |-> IF StringArg(msg.args, 3) THEN <<msg.args[3].v>> ELSE <<>>]
         IN  [expiry |-> subscription_expiry, ev |-> EvCueFired(info)]
    ELSE [expiry |-> subscription_expiry, ev |-> NoEvent]

\* One decoded packet: a message or a bundle of packets.
PktMessage(m) == [kind |-> "Message", msg |-> m]
PktBundle(content) == [kind |-> "Bundle", content |-> content]
PktNested == [kind |-> "Bundle", content |-> <<>>]

\* The for loop over bundle.content: packets that are not messages are skipped.
RECURSIVE DispatchContent(_, _, _)
DispatchContent(content, expiry, evs) ==
    IF content = <<>> THEN [expiry |-> expiry, evs |-> evs]
    ELSE LET pkt == Head(content)
         IN  IF pkt.kind = "Message"
             THEN LET r == handle_message(pkt.msg, expiry)
                  IN  DispatchContent(Tail(content), r.expiry,
                                      IF r.ev = NoEvent THEN evs ELSE Append(evs, r.ev))
             ELSE DispatchContent(Tail(content), expiry, evs)

\* The bundle loop with an off-by-one: the last packet is never dispatched.
DispatchPacketDropLast(packet, expiry) ==
    IF packet.kind = "Message"
    THEN LET r == handle_message(packet.msg, expiry)
         IN  [expiry |-> r.expiry, evs |-> IF r.ev = NoEvent THEN <<>> ELSE <<r.ev>>]
    ELSE DispatchContent(SubSeq(packet.content, 1, Len(packet.content) - 1), expiry, <<>>)

\* match packet { Message => ..., Bundle => ... }: the new lease and the events
\* handed to tx.send, in order.
DispatchPacket(packet, expiry) ==
    IF packet.kind = "Message"
    THEN LET r == handle_message(packet.msg, expiry)
         IN  [expiry |-> r.expiry, evs |-> IF r.ev = NoEvent THEN <<>> ELSE <<r.ev>>]
    ELSE DispatchContent(packet.content, expiry, <<>>)

\* ------------------------------------------------------------------ hosts
\* A host string is the sequence of its characters, so that trim() is computed.
HostA == <<"a">>
HostB == <<"b">>
IsSpace(c) == c = " "

RECURSIVE TrimStart(_)
TrimStart(s) == IF s # <<>> /\ IsSpace(Head(s)) THEN TrimStart(Tail(s)) ELSE s

RECURSIVE TrimEnd(_)
TrimEnd(s) ==
    IF s # <<>> /\ IsSpace(s[Len(s)]) THEN TrimEnd(SubSeq(s, 1, Len(s) - 1)) ELSE s

\* A trim that leaves the text as typed
TrimNone(s) == s

\* str::trim()
Trim(s) == TrimEnd(TrimStart(s))

\* What the user can have typed into the host field.
HostEdits == {<<>>, <<" ">>, HostA, <<" ", "b", " ">>}

\* ------------------------------------------------------------ environment
\* to_socket_addrs(): an error, an empty address list, or a first address.
\* UdpSocket::bind and connect can each fail after a successful resolve.
BindOutcomes == {"resolve_err", "resolve_empty", "bind_err", "connect_err", "ok"}
ResolveOutcomes == {"resolve_err", "resolve_empty", "ok"}
SendOutcomes == {"ok", "err"}

\* Expiry arguments a peer reports.
ExpiryArgs == {-1, 0, 1, MaxExpiry}

CueArgs == {<<OscString("Q12"), OscString("Enter Juliet"), OscString("red")>>,
            <<OscString("Q13"), OscFloat(1)>>}

\* Messages a peer sends.
NetMsgs ==
    {Msg("/subscribeok", <<OscInt(n)>>) : n \in ExpiryArgs}
    \cup {Msg("/subscribeok", <<>>), Msg("/subscribefail", <<>>), Msg("/thump", <<>>),
          Msg("/other", <<>>)}
    \cup {Msg("/cuefired", a) : a \in CueArgs}

\* Datagrams that decode: every message standalone, and some bundles.
NetPackets ==
    {PktMessage(m) : m \in NetMsgs}
    \cup {PktBundle(<<PktMessage(Msg("/subscribeok", <<OscInt(MaxExpiry)>>)),
                      PktMessage(Msg("/subscribefail", <<>>))>>),
          PktBundle(<<PktNested, PktMessage(Msg("/thump", <<>>))>>)}

\* ------------------------------------------------------------------ state
VARIABLES
    pc,                   \* where the agent thread is in spawn_osc_thread
    socket,               \* Option<UdpSocket>: 0 is None, k > 0 the k-th socket bound
    current_host,
    subscription_expiry,
    last_subscribe,       \* kept as its age last_subscribe.elapsed(), in seconds
    last_thump,           \* kept as its age last_thump.elapsed(), in seconds
    cmds,                 \* the NetCmd channel (UI to agent)
    events,               \* the NetEvent channel (agent to UI)
    uiAlive,              \* the UI still holds cmd_tx and rx
    now,                  \* the clock as the UI thread reads it, in seconds
    state,                \* TheatreMixApp.state: CueState
    status,
    host,
    config,               \* the content of host.txt (<<>> when there is no file)
    binds,                \* history: sockets bound so far
    cmdsSent,             \* history: set-host commands sent so far
    last,                 \* history: what the agent's last bind, send or receive did
    okArg,                \* history: argument of the last /subscribeok on this endpoint
    okAge,                \* history: its age, until the next /subscribe is sent
    failed,               \* history: /subscribefail handled since the last /subscribeok
    uiOk,                 \* history: a subscribe-ok applied and not invalidated since
    feed                  \* the messages of the bundle specification, and its two runs

agentVars == <<pc, socket, current_host, subscription_expiry, last_subscribe, last_thump>>
uiVars == <<now, state, status, host, config, cmdsSent, uiOk>>
histVars == <<binds, last, okArg, okAge, failed>>
vars == <<agentVars, cmds, events, uiAlive, uiVars, histVars, feed>>

None == <<>>
NoArg == MaxExpiry + 1      \* okArg when no /subscribeok was handled
Never == 0 - 1               \* okAge when no /subscribeok is outstanding

\* CueState::default() with next.text set (next is never written again)
CueStateInit == [current |-> CueInfoDefault, connected |-> FALSE, last_rx |-> None]

\* A subscribe interval of the whole lease instead of half of it
SubscribeIntervalWholeLease(expiry) ==
    IF expiry > 0 THEN Max(expiry, TwoSecs) ELSE TwoSecs

\* A subscribe interval that forgets the 2 s floor
SubscribeIntervalNoFloor(expiry) ==
    IF expiry > 0 THEN expiry \div 2 ELSE TwoSecs

\* let subscribe_interval = if subscription_expiry > 0 { (expiry / 2).max(2) } else { 2 }
SubscribeInterval(expiry) ==
    IF expiry > 0 THEN Max(expiry \div 2, TwoSecs) ELSE TwoSecs

\* Ages are kept up to the largest interval they are compared with: an older
\* timer passes every comparison the code makes, like one of exactly this age.
SubCap == SubscribeInterval(MaxExpiry)
Age(seconds, cap) == IF seconds >= cap THEN cap ELSE seconds

NoFeed == [msgs |-> <<>>]

InitBase ==
    /\ pc = "start"
    /\ socket = 0
    /\ current_host = HostA
    /\ subscription_expiry = 0
    /\ last_subscribe = Age(TenSecs, SubCap)
    /\ last_thump = Age(TenSecs, TwoSecs)
    /\ cmds = <<>>
    /\ events = <<>>
    /\ uiAlive = TRUE
    /\ now = 0
    /\ state = CueStateInit
    /\ status = <<"Connecting...">>
    /\ host = HostA
    /\ config = None
    /\ binds = 0
    /\ cmdsSent = 0
    /\ last = [op |-> "none"]
    /\ okArg = NoArg
    /\ okAge = Never
    /\ failed = FALSE
    /\ uiOk = FALSE

Init == InitBase /\ feed = NoFeed

\* tx.send(ev): queued while the receiver lives, otherwise the error is ignored.
Emit(q, evs) == IF uiAlive THEN q \o evs ELSE q

\* bind_socket: Ok(socket) or exactly one Error event and Err.
bind_socket(h, outcome) ==
    IF outcome = "ok" THEN [ok |-> TRUE, evs |-> <<>>]
    ELSE [ok |-> FALSE, evs |-> <<EvError(<<outcome, h>>)>>]

\* ------------------------------------------------------------------ agent
\* A bind that keeps the socket it had when the new bind fails
RebindKeepOld(h, outcome, fromCmd) ==
    LET r == bind_socket(h, outcome)
    IN  /\ current_host' = h
        /\ socket' = IF r.ok THEN binds + 1 ELSE socket
        /\ binds' = IF r.ok THEN binds + 1 ELSE binds
        /\ subscription_expiry' = 0
        /\ last_subscribe' = Age(TenSecs, SubCap)
        /\ last_thump' = Age(TenSecs, TwoSecs)
        /\ events' = Emit(events, r.evs)
        /\ last' = [op |-> "bind", cmd |-> fromCmd, host |-> h, outcome |-> outcome,
                    old |-> socket, evs |-> r.evs]
        /\ okArg' = NoArg
        /\ okAge' = Never
        /\ failed' = FALSE

\* A bind that leaves both timers running
RebindNoTimerReset(h, outcome, fromCmd) ==
    LET r == bind_socket(h, outcome)
    IN  /\ current_host' = h
        /\ socket' = IF r.ok THEN binds + 1 ELSE 0
        /\ binds' = IF r.ok THEN binds + 1 ELSE binds
        /\ subscription_expiry' = 0
        /\ last_subscribe' = last_subscribe
        /\ last_thump' = last_thump
        /\ events' = Emit(events, r.evs)
        /\ last' = [op |-> "bind", cmd |-> fromCmd, host |-> h, outcome |-> outcome,
                    old |-> socket, evs |-> r.evs]
        /\ okArg' = NoArg
        /\ okAge' = Never
        /\ failed' = FALSE

\* The state a bind leaves behind, at thread start and on SetHost: the socket,
\* the lease and both timers (Instant::now() - 10 s).
Rebind(h, outcome, fromCmd) ==
    LET r == bind_socket(h, outcome)
    IN  /\ current_host' = h
        /\ socket' = IF r.ok THEN binds + 1 ELSE 0
        /\ binds' = IF r.ok THEN binds + 1 ELSE binds
        /\ subscription_expiry' = 0
        /\ last_subscribe' = Age(TenSecs, SubCap)
        /\ last_thump' = Age(TenSecs, TwoSecs)
        /\ events' = Emit(events, r.evs)
        /\ last' = [op |-> "bind", cmd |-> fromCmd, host |-> h, outcome |-> outcome,
                    old |-> socket, evs |-> r.evs]
        /\ okArg' = NoArg
        /\ okAge' = Never
        /\ failed' = FALSE

\* A loop that goes on to the sends without looking at the socket
AfterPollNoGuard(sock) == "send"

\* The step after try_recv: no socket means sleep and continue.
AfterPoll(sock) == IF sock = 0 THEN "idle" ELSE "send"

\* Thread start: the first bind_socket and the initial timers.
AgentStart ==
    /\ pc = "start"
    /\ \E outcome \in BindOutcomes : Rebind(current_host, outcome, FALSE)
    /\ pc' = "poll"
    /\ UNCHANGED <<cmds, uiAlive, uiVars, feed>>

\* Ok(NetCmd::SetHost(new_host))
AgentSetHost ==
    /\ pc = "poll"
    /\ cmds # <<>>
    /\ \E outcome \in BindOutcomes :
          /\ Rebind(Head(cmds), outcome, TRUE)
          /\ pc' = AfterPoll(socket')
    /\ cmds' = Tail(cmds)
    /\ UNCHANGED <<uiAlive, uiVars, feed>>

\* A poll that takes a disconnected channel for an empty one
AgentPollEmptyNoBreak ==
    /\ pc = "poll"
    /\ cmds = <<>>
    /\ pc' = AfterPoll(socket)
    /\ UNCHANGED <<socket, current_host, subscription_expiry, last_subscribe,
                   last_thump, cmds, events, uiAlive, uiVars, histVars, feed>>

\* Err(TryRecvError::Empty)
AgentPollEmpty ==
    /\ pc = "poll"
    /\ cmds = <<>>
    /\ uiAlive
    /\ pc' = AfterPoll(socket)
    /\ UNCHANGED <<socket, current_host, subscription_expiry, last_subscribe,
                   last_thump, cmds, events, uiAlive, uiVars, histVars, feed>>

\* Err(TryRecvError::Disconnected) => break
AgentDisconnected ==
    /\ pc = "poll"
    /\ cmds = <<>>
    /\ ~uiAlive
    /\ pc' = "done"
    /\ UNCHANGED <<socket, current_host, subscription_expiry, last_subscribe,
                   last_thump, cmds, events, uiAlive, uiVars, histVars, feed>>

\* No socket: thread::sleep(100 ms); continue
AgentIdle ==
    /\ pc = "idle"
    /\ pc' = "poll"
    /\ UNCHANGED <<socket, current_host, subscription_expiry, last_subscribe,
                   last_thump, cmds, events, uiAlive, uiVars, histVars, feed>>

\* A send_osc that gives the socket up when socket.send fails
send_osc_drop(sock, outcome) == IF outcome = "err" THEN 0 ELSE sock

\* send_osc: let _ = socket.send(&buf).  The socket the agent holds afterwards,
\* for either outcome of the send.
send_osc(sock, outcome) == sock

\* Sends in which the thump is timed by the subscribe timer
AgentSendThumpBySubscribe ==
    /\ pc = "send"
    /\ LET doSub == last_subscribe >= SubscribeInterval(subscription_expiry)
           doThump == last_subscribe >= TwoSecs
       IN  /\ last_subscribe' = IF doSub THEN 0 ELSE last_subscribe
           /\ last_thump' = IF doThump THEN 0 ELSE last_thump
           /\ okAge' = IF doSub THEN Never ELSE okAge
           /\ \E outcome \in IF doSub \/ doThump THEN SendOutcomes ELSE {"ok"} :
                 /\ socket' = send_osc(socket, outcome)
                 /\ last' = [op |-> "send", ep |-> socket, sub |-> doSub,
                             thump |-> doThump, outcome |-> outcome,
                             subGap |-> last_subscribe,
                             thumpGap |-> last_thump,
                             okGap |-> okAge]
    /\ pc' = "recv"
    /\ UNCHANGED <<current_host, subscription_expiry, cmds, events,
                   uiAlive, uiVars, binds, okArg, failed, feed>>

\* The two timed sends.  send_osc ignores the result of socket.send, so a send
\* that fails ("err": one of the sends of this step) leaves the same state as
\* one that succeeds.
AgentSend ==
    /\ pc = "send"
    /\ LET doSub == last_subscribe >= SubscribeInterval(subscription_expiry)
           doThump == last_thump >= TwoSecs
       IN  /\ last_subscribe' = IF doSub THEN 0 ELSE last_subscribe
           /\ last_thump' = IF doThump THEN 0 ELSE last_thump
           /\ okAge' = IF doSub THEN Never ELSE okAge
           /\ \E outcome \in IF doSub \/ doThump THEN SendOutcomes ELSE {"ok"} :
                 /\ socket' = send_osc(socket, outcome)
                 /\ last' = [op |-> "send", ep |-> socket, sub |-> doSub,
                             thump |-> doThump, outcome |-> outcome,
                             subGap |-> last_subscribe,
                             thumpGap |-> last_thump,
                             okGap |-> okAge]
    /\ pc' = "recv"
    /\ UNCHANGED <<current_host, subscription_expiry, cmds, events,
                   uiAlive, uiVars, binds, okArg, failed, feed>>

\* A receive arm that gives the socket up on an error other than a timeout
recv_err_drop(sock, kind) == IF kind = "error" THEN 0 ELSE sock

\* Err(_) => { /* timeout or transient error; continue */ }, and a datagram
\* that does not decode: the socket the agent holds afterwards.
recv_err(sock, kind) == sock

\* sock.recv: Err(timeout or would-block), Err(anything else), or a datagram that
\* rosc cannot decode.  All three change nothing.
AgentRecvNothing ==
    /\ pc = "recv"
    /\ \E kind \in {"timeout", "error", "undecodable"} :
          /\ socket' = recv_err(socket, kind)
          /\ last' = [op |-> "recv", ep |-> socket, kind |-> kind, evs |-> <<>>,
                      oks |-> 0]
    /\ pc' = "sleep"
    /\ UNCHANGED <<current_host, subscription_expiry, last_subscribe,
                   last_thump, cmds, events, uiAlive, uiVars, binds, okArg, okAge, failed, feed>>

\* The /subscribeok and /subscribefail messages of a packet that handle_message
\* acts on, in order (for the history variables).
RECURSIVE Acks(_)
Acks(content) ==
    IF content = <<>> THEN <<>>
    ELSE LET pkt == Head(content)
         IN  IF pkt.kind = "Message"
                /\ \/ pkt.msg.addr = "/subscribefail"
                   \/ /\ pkt.msg.addr = "/subscribeok"
                      /\ Len(pkt.msg.args) >= 1
                      /\ pkt.msg.args[1].t = "Int"
             THEN <<pkt.msg>> \o Acks(Tail(content))
             ELSE Acks(Tail(content))

PacketAcks(packet) ==
    IF packet.kind = "Message" THEN Acks(<<packet>>) ELSE Acks(packet.content)

IsOk(m) == m.addr = "/subscribeok"

RECURSIVE LastOk(_)
LastOk(acks) ==
    IF acks = <<>> THEN <<>>
    ELSE IF acks[Len(acks)].addr = "/subscribeok" THEN <<acks[Len(acks)].args[1].v>>
    ELSE LastOk(SubSeq(acks, 1, Len(acks) - 1))

\* Ok(n) with a packet that decodes: every message goes through handle_message
\* and every event through tx.send.
AgentRecvPacket ==
    /\ pc = "recv"
    /\ Len(events) <= MaxEvents
    /\ \E packet \in NetPackets :
          LET r == DispatchPacket(packet, subscription_expiry)
              acks == PacketAcks(packet)
          IN  /\ subscription_expiry' = r.expiry
              /\ events' = Emit(events, r.evs)
              /\ last' = [op |-> "recv", ep |-> socket, kind |-> "packet",
                          evs |-> r.evs,
                          oks |-> Len(SelectSeq(acks, IsOk))]
              /\ okArg' = IF LastOk(acks) = <<>> THEN okArg ELSE LastOk(acks)[1]
              /\ okAge' = IF LastOk(acks) = <<>> THEN okAge ELSE 0
              /\ failed' = IF acks = <<>> THEN failed
                           ELSE acks[Len(acks)].addr = "/subscribefail"
    /\ pc' = "sleep"
    /\ UNCHANGED <<socket, current_host, last_subscribe, last_thump, cmds,
                   uiAlive, uiVars, binds, feed>>

\* thread::sleep(100 ms) at the end of the iteration
AgentSleep ==
    /\ pc = "sleep"
    /\ pc' = "poll"
    /\ UNCHANGED <<socket, current_host, subscription_expiry, last_subscribe,
                   last_thump, cmds, events, uiAlive, uiVars, histVars, feed>>

\* A second passes on the agent's clock: both timers age.
AgentTick ==
    /\ pc \notin {"start", "done"}
    /\ \/ last_subscribe < SubCap
       \/ last_thump < TwoSecs
       \/ okAge # Never /\ okAge < SubCap
    /\ last_subscribe' = Age(last_subscribe + 1, SubCap)
    /\ last_thump' = Age(last_thump + 1, TwoSecs)
    /\ okAge' = IF okAge = Never THEN Never ELSE Age(okAge + 1, SubCap)
    /\ UNCHANGED <<pc, socket, current_host, subscription_expiry, cmds, events,
                   uiAlive, uiVars, binds, last, okArg, failed, feed>>

\* --------------------------------------------------------------------- UI
\* An apply_event that takes a thump for proof of the subscription
apply_event_thump_connects(ui, ev, t) ==
    IF ev.type = "CueFired"
    THEN [ui EXCEPT !.state.current = ev.info, !.state.last_rx = <<t>>]
    ELSE IF ev.type = "SubscribeOk"
    THEN [ui EXCEPT !.state.connected = TRUE, !.status = <<"Subscribed">>, !.ok = TRUE]
    ELSE IF ev.type = "SubscribeFail"
    THEN [ui EXCEPT !.state.connected = FALSE, !.status = <<"Subscription failed">>,
                    !.ok = FALSE]
    ELSE IF ev.type = "Thump"
    THEN [ui EXCEPT !.state.last_rx = <<t>>, !.state.connected = TRUE]
    ELSE [ui EXCEPT !.state.connected = FALSE, !.status = <<"Error">> \o ev.msg,
                    !.ok = FALSE]

\* An apply_event that takes a subscribe-ok for a sign of life as well
apply_event_ok_stamps(ui, ev, t) ==
    IF ev.type = "CueFired"
    THEN [ui EXCEPT !.state.current = ev.info, !.state.last_rx = <<t>>]
    ELSE IF ev.type = "SubscribeOk"
    THEN [ui EXCEPT !.state.connected = TRUE, !.status = <<"Subscribed">>, !.ok = TRUE,
                    !.state.last_rx = <<t>>]
    ELSE IF ev.type = "SubscribeFail"
    THEN [ui EXCEPT !.state.connected = FALSE, !.status = <<"Subscription failed">>,
                    !.ok = FALSE]
    ELSE IF ev.type = "Thump"
    THEN [ui EXCEPT !.state.last_rx = <<t>>]
    ELSE [ui EXCEPT !.state.connected = FALSE, !.status = <<"Error">> \o ev.msg,
                    !.ok = FALSE]

\* An apply_event that takes a cue fired again for the end of that cue
apply_event_clear_repeat(ui, ev, t) ==
    IF ev.type = "CueFired"
    THEN [ui EXCEPT !.state.current = IF ev.info = @ THEN CueInfoDefault ELSE ev.info,
                    !.state.last_rx = <<t>>]
    ELSE IF ev.type = "SubscribeOk"
    THEN [ui EXCEPT !.state.connected = TRUE, !.status = <<"Subscribed">>, !.ok = TRUE]
    ELSE IF ev.type = "SubscribeFail"
    THEN [ui EXCEPT !.state.connected = FALSE, !.status = <<"Subscription failed">>,
                    !.ok = FALSE]
    ELSE IF ev.type = "Thump"
    THEN [ui EXCEPT !.state.last_rx = <<t>>]
    ELSE [ui EXCEPT !.state.connected = FALSE, !.status = <<"Error">> \o ev.msg,
                    !.ok = FALSE]

\* TheatreMixApp::apply_event on the pair (state, status), at clock reading t
\* (ok is the history flag uiOk, carried along).
apply_event(ui, ev, t) ==
    IF ev.type = "CueFired"
    THEN [ui EXCEPT !.state.current = ev.info, !.state.last_rx = <<t>>]
    ELSE IF ev.type = "SubscribeOk"
    THEN [ui EXCEPT !.state.connected = TRUE, !.status = <<"Subscribed">>, !.ok = TRUE]
    ELSE IF ev.type = "SubscribeFail"
    THEN [ui EXCEPT !.state.connected = FALSE, !.status = <<"Subscription failed">>,
                    !.ok = FALSE]
    ELSE IF ev.type = "Thump"
    THEN [ui EXCEPT !.state.last_rx = <<t>>]
    ELSE [ui EXCEPT !.state.connected = FALSE, !.status = <<"Error">> \o ev.msg,
                    !.ok = FALSE]

\* A drain that takes one event per frame (if let in place of while let)
DrainOne(ui, q, t) ==
    IF q = <<>> THEN [ui EXCEPT !.rest = <<>>]
    ELSE [apply_event(ui, Head(q), t) EXCEPT !.log = Append(@, Head(q)),
                                             !.rest = Tail(q)]

\* while let Ok(ev) = self.rx.try_recv() { self.apply_event(ev) }
\* log is the history of the events the loop applied, rest what it leaves queued.
RECURSIVE Drain(_, _, _)
Drain(ui, q, t) ==
    IF q = <<>> THEN [ui EXCEPT !.rest = <<>>]
    ELSE Drain([apply_event(ui, Head(q), t) EXCEPT !.log = Append(@, Head(q))],
               Tail(q), t)

\* The UI's fields the drain loop works on, as they are now.
UiNow == [state |-> state, status |-> status, ok |-> uiOk, log |-> <<>>, rest |-> events]

Drained == Drain(UiNow, events, now)

\* A frame in which Apply is not clicked: the pending events are applied.
UiFrame ==
    /\ uiAlive
    /\ events # <<>>
    /\ state' = Drained.state
    /\ status' = Drained.status
    /\ uiOk' = Drained.ok
    /\ events' = Drained.rest
    /\ UNCHANGED <<agentVars, cmds, uiAlive, now, host, config, cmdsSent, histVars, feed>>

\* An Apply that sends the host typed even when it is the one configured
ApplyTextAlways(typed, logged) ==
    LET new_host == Trim(typed)
        Log(resolve) == IF logged THEN [typed |-> typed, resolve |-> resolve]
                        ELSE feed
    IN  /\ uiAlive
        /\ events' = Drained.rest
        /\ IF new_host # <<>>
           THEN \E resolve \in ResolveOutcomes :
                   /\ feed' = Log(resolve)
                   /\ IF resolve # "resolve_err"
                      THEN /\ cmdsSent < MaxCmds
                           /\ host' = new_host
                           /\ cmds' = Append(cmds, new_host)
                           /\ cmdsSent' = cmdsSent + 1
                           /\ status' = <<"Reconnecting...">>
                           /\ state' = [Drained.state EXCEPT !.connected = FALSE]
                           /\ uiOk' = FALSE
                           /\ \E saved \in BOOLEAN :
                                 config' = IF saved THEN <<new_host>> ELSE config
                      ELSE /\ status' = <<"Invalid host", new_host>>
                           /\ state' = Drained.state
                           /\ uiOk' = Drained.ok
                           /\ UNCHANGED <<host, cmds, cmdsSent, config>>
           ELSE /\ feed' = Log("none")
                /\ status' = Drained.status
                /\ state' = Drained.state
                /\ uiOk' = Drained.ok
                /\ UNCHANGED <<host, cmds, cmdsSent, config>>
        /\ UNCHANGED <<agentVars, uiAlive, now, histVars>>

\* A frame in which Apply is clicked with `typed` in the host field: the pending
\* events are applied, then the trimmed field is validated, sent to the agent
\* and saved (fs::write may fail, which is ignored).  With `logged`, feed keeps
\* the history of the click: what was typed and what to_socket_addrs returned
\* ("none" when it was not called).
ApplyText(typed, logged) ==
    LET new_host == Trim(typed)
        Log(resolve) == IF logged THEN [typed |-> typed, resolve |-> resolve]
                        ELSE feed
    IN  /\ uiAlive
        /\ events' = Drained.rest
        /\ IF new_host # <<>> /\ new_host # host
           THEN \E resolve \in ResolveOutcomes :
                   /\ feed' = Log(resolve)
                   /\ IF resolve # "resolve_err"
                      THEN /\ cmdsSent < MaxCmds
                           /\ host' = new_host
                           /\ cmds' = Append(cmds, new_host)
                           /\ cmdsSent' = cmdsSent + 1
                           /\ status' = <<"Reconnecting...">>
                           /\ state' = [Drained.state EXCEPT !.connected = FALSE]
                           /\ uiOk' = FALSE
                           /\ \E saved \in BOOLEAN :
                                 config' = IF saved THEN <<new_host>> ELSE config
                      ELSE /\ status' = <<"Invalid host", new_host>>
                           /\ state' = Drained.state
                           /\ uiOk' = Drained.ok
                           /\ UNCHANGED <<host, cmds, cmdsSent, config>>
           ELSE /\ feed' = Log("none")
                /\ status' = Drained.status
                /\ state' = Drained.state
                /\ uiOk' = Drained.ok
                /\ UNCHANGED <<host, cmds, cmdsSent, config>>
        /\ UNCHANGED <<agentVars, uiAlive, now, histVars>>

ApplyClick(logged) == \E typed \in HostEdits : ApplyText(typed, logged)

UiApply == ApplyClick(FALSE)

\* The window closes: the app is dropped, and with it cmd_tx and rx.
UiClose ==
    /\ uiAlive
    /\ uiAlive' = FALSE
    /\ events' = <<>>
    /\ UNCHANGED <<agentVars, cmds, uiVars, histVars, feed>>

\* A second passes on the UI's clock.
UiTick ==
    /\ uiAlive
    /\ now < MaxTime
    /\ now' = now + 1
    /\ UNCHANGED <<agentVars, cmds, events, uiAlive, state, status, host, config,
                   cmdsSent, uiOk, histVars, feed>>

\* ------------------------------------------------- the agent against any UI
\* The agent thread reads nothing of the UI but the two channels.  In the agent
\* specification the UI is its channel operations alone: cmd_tx.send of a host
\* other than the configured one, a frame's drain of rx, and the drop of both ends.
Hosts == {HostA, HostB}

ChanSetHost ==
    /\ uiAlive
    /\ cmdsSent < MaxCmds
    /\ \E h \in Hosts \ {host} :
          /\ host' = h
          /\ cmds' = Append(cmds, h)
    /\ cmdsSent' = cmdsSent + 1
    /\ UNCHANGED <<agentVars, events, uiAlive, now, state, status, config, uiOk,
                   histVars, feed>>

ChanDrain ==
    /\ uiAlive
    /\ events # <<>>
    /\ events' = <<>>
    /\ UNCHANGED <<agentVars, cmds, uiAlive, uiVars, histVars, feed>>

ChanClose ==
    /\ uiAlive
    /\ uiAlive' = FALSE
    /\ events' = <<>>
    /\ UNCHANGED <<agentVars, cmds, uiVars, histVars, feed>>

NextAgent ==
    \/ AgentTick
    \/ AgentStart
    \/ AgentSetHost
    \/ AgentPollEmpty
    \/ AgentDisconnected
    \/ AgentIdle
    \/ AgentSend
    \/ AgentRecvNothing
    \/ AgentRecvPacket
    \/ AgentSleep
    \/ ChanSetHost
    \/ ChanDrain
    \/ ChanClose

SpecAgent == Init /\ [][NextAgent]_vars

\* ------------------------------------------------- the UI against any agent
\* The UI reads nothing of the agent but the two channels.  In the UI
\* specification the agent is its channel operations alone: tx.send of any
\* event it can build (of the Error events, those of the first and of the last
\* failure of bind_socket), and try_recv of a command.
MaxQueue == 1       \* events queued at once in the UI specification

AgentEvents ==
    ({handle_message(m, 0).ev : m \in NetMsgs} \ {NoEvent})
    \cup {bind_socket(h, o).evs[1] : h \in Hosts, o \in {"resolve_err", "connect_err"}}

ChanEmit ==
    /\ uiAlive
    /\ Len(events) < MaxQueue
    /\ \E ev \in AgentEvents : events' = Append(events, ev)
    /\ UNCHANGED <<agentVars, cmds, uiAlive, uiVars, histVars, feed>>

ChanTake ==
    /\ cmds # <<>>
    /\ cmds' = Tail(cmds)
    /\ UNCHANGED <<agentVars, events, uiAlive, uiVars, histVars, feed>>

NextUi ==
    \/ UiTick
    \/ UiFrame
    \/ UiApply
    \/ UiClose
    \/ ChanEmit
    \/ ChanTake

SpecUi == Init /\ [][NextUi]_vars

\* ---------------------------------------------------- the settings dialog
\* The UI with the history of the Apply clicks kept in feed, through frames in
\* which its clock reading does not advance.
UiApplyLogged == ApplyClick(TRUE)

NextApply ==
    \/ UiFrame
    \/ UiApplyLogged
    \/ UiClose
    \/ ChanEmit
    \/ ChanTake

SpecApply == Init /\ [][NextApply]_vars

\* ------------------------------------------- bundles and standalone messages
\* The receive arm on its own: the same messages taken once as one bundle and
\* once as standalone datagrams in the same order, from the same lease.
BundleMsgs ==
    {Msg("/subscribeok", <<OscInt(0)>>), Msg("/subscribeok", <<OscInt(MaxExpiry)>>),
     Msg("/subscribeok", <<>>), Msg("/subscribefail", <<>>), Msg("/thump", <<>>),
     Msg("/cuefired", <<OscString("Q13")>>), Msg("/other", <<>>)}

SeqsUpTo(S, n) == UNION {[1..k -> S] : k \in 0..n}

Wrap(msgs) == [i \in 1..Len(msgs) |-> PktMessage(msgs[i])]

InitBundle ==
    /\ InitBase
    /\ \E msgs \in SeqsUpTo(BundleMsgs, MaxBundle), lease \in {0, 2, MaxExpiry} :
          feed = [msgs |-> msgs, start |-> lease, pos |-> 0, lease |-> lease,
                  evs |-> <<>>, bundle |-> <<>>]

\* The next message arrives as a datagram of its own.
FeedStandalone ==
    /\ feed.pos < Len(feed.msgs)
    /\ LET r == DispatchPacket(PktMessage(feed.msgs[feed.pos + 1]), feed.lease)
       IN  feed' = [feed EXCEPT !.pos = @ + 1, !.lease = r.expiry,
                                !.evs = @ \o r.evs]
    /\ UNCHANGED <<agentVars, cmds, events, uiAlive, uiVars, histVars>>

\* All the messages arrive as one bundle.
FeedBundle ==
    /\ feed.bundle = <<>>
    /\ feed' = [feed EXCEPT
                   !.bundle = <<DispatchPacket(PktBundle(Wrap(feed.msgs)), feed.start)>>]
    /\ UNCHANGED <<agentVars, cmds, events, uiAlive, uiVars, histVars>>

NextBundle == FeedStandalone \/ FeedBundle

SpecBundle == InitBundle /\ [][NextBundle]_vars

\* ------------------------------------------------- the agent against the UI
\* Both threads together, through a burst of iterations and frames in which
\* neither clock reading advances (the timers are due after each bind and are
\* not due again afterwards) and every receive brings a datagram (one that
\* brings none changes nothing the two threads share).
NextPair ==
    \/ AgentStart
    \/ AgentSetHost
    \/ AgentPollEmpty
    \/ AgentDisconnected
    \/ AgentIdle
    \/ AgentSend
    \/ AgentRecvPacket
    \/ AgentSleep
    \/ UiFrame
    \/ UiApply
    \/ UiClose

SpecPair == Init /\ [][NextPair]_vars

\* ------------------------------------------------------- /cuefired messages
\* The receive arm on one /cuefired datagram with any arguments: strings (the
\* empty one too), an int, a float and a nil, in any of the first MaxArgs places.
OscNil == [t |-> "Nil", v |-> 0]

CueArgValues == {OscString("Q7"), OscString(""), OscInt(7), OscFloat(1), OscNil}

InitCue ==
    /\ InitBase
    /\ \E args \in SeqsUpTo(CueArgValues, MaxArgs), lease \in {0, MaxExpiry} :
          feed = [args |-> args, start |-> lease, out |-> <<>>]

\* The datagram is received and dispatched.
CueDispatch ==
    /\ feed.out = <<>>
    /\ feed' = [feed EXCEPT
                   !.out = <<DispatchPacket(PktMessage(Msg("/cuefired", feed.args)),
                                            feed.start)>>]
    /\ UNCHANGED <<agentVars, cmds, events, uiAlive, uiVars, histVars>>

NextCue == CueDispatch

SpecCue == InitCue /\ [][NextCue]_vars

\* ================================================================== claims
IsSubscribeOk(ev) == ev.type = "SubscribeOk"

\* The seconds the claims name for /subscribeok n: the lease max(n, 2), half of
\* it, and the interval the amended C1 names.
LeaseOf(n) == Max(n, 2)
IntervalOf(n) == Max(LeaseOf(n) \div 2, 2)

\* C1 (as stated): after /subscribeok n the next /subscribe is sent no later than
\* max(n, 2) / 2 seconds after it and no sooner than that minus the loop slack.
\* Checked in milliseconds at the send step that sends that /subscribe.
C1_Original ==
    (last.op = "send" /\ last.sub /\ last.okGap # Never)
        => /\ last.okGap * 1000 <= LeaseOf(okArg) * 500
           /\ last.okGap * 1000 >= LeaseOf(okArg) * 500 - SlackMs

\* C1 (amended): once /subscribeok n was handled on an endpoint, a send step
\* sends /subscribe exactly when at least max(max(n, 2) div 2, 2) seconds have
\* passed since the previous /subscribe on that endpoint.
C1_NextSubscribe ==
    (last.op = "send" /\ okArg # NoArg)
        => (last.sub <=> last.subGap >= IntervalOf(okArg))

\* C1 witness: the /subscribe that follows /subscribeok MaxExpiry.
C1_Witness ==
    /\ last.op = "send"
    /\ last.sub
    /\ okArg = MaxExpiry
    /\ last.okGap # Never
    /\ last.subGap >= IntervalOf(MaxExpiry)

\* C2: handling /subscribeok n sets the lease to max(n, 2) and emits one
\* subscribe-ok event carrying it (one per /subscribeok handled in the packet,
\* the last one carrying the lease); the lease is always 0 or at least 2.
C2_LeaseClamped ==
    /\ subscription_expiry = 0 \/ subscription_expiry >= 2
    /\ (last.op = "recv")
          => /\ Len(SelectSeq(last.evs, IsSubscribeOk)) = last.oks
             /\ last.oks >= 1
                   => LET oks == SelectSeq(last.evs, IsSubscribeOk)
                      IN  /\ subscription_expiry = LeaseOf(okArg)
                          /\ oks[Len(oks)] = EvSubscribeOk(LeaseOf(okArg))

\* C2 witness: a negative expiry was handled and clamped.
C2_Witness ==
    /\ last.op = "recv"
    /\ last.oks = 1
    /\ okArg = -1
    /\ subscription_expiry = 2
    /\ last.evs = <<EvSubscribeOk(2)>>

\* C3 (as stated, the agent's half): once /subscribefail was handled, and until
\* another /subscribeok, every send step that finds 2 seconds passed since the
\* last /subscribe sends one, whatever the lease.
C3_Original ==
    (last.op = "send" /\ failed) => (last.sub <=> last.subGap >= TwoSecs)

\* C4: a set-host command whose host does not resolve leaves the agent without
\* an endpoint, idle, with exactly one error event emitted for the command.
C4_UnresolvableHost ==
    (last.op = "bind" /\ last.cmd /\ last.outcome \in {"resolve_err", "resolve_empty"})
        => /\ socket = 0
           /\ pc \in {"idle", "poll", "done"}
           /\ Len(last.evs) = 1
           /\ last.evs[1] = EvError(<<last.outcome, current_host>>)

\* C4 witness: an agent that had an endpoint lost it to an empty address list.
C4_Witness ==
    /\ last.op = "bind"
    /\ last.cmd
    /\ last.outcome = "resolve_empty"
    /\ last.old # 0
    /\ socket = 0

\* C5: a set-host command that binds leaves a new endpoint, lease 0 and both
\* timers due; the next send step sends /subscribe and /thump on the new
\* endpoint; every send is on the endpoint bound last.
C5_SetHostRebinds ==
    /\ []((last.op = "bind" /\ last.cmd /\ last.outcome = "ok")
            => /\ socket = binds
               /\ socket # 0
               /\ socket # last.old
               /\ current_host = last.host
               /\ subscription_expiry = 0
               /\ pc = "send")
    /\ [][(pc = "send" /\ pc' = "recv" /\ last.op = "bind" /\ last.cmd)
            => (last'.sub /\ last'.thump /\ last'.ep = socket)]_vars
    /\ [](last.op = "send" => (last.ep = binds /\ last.ep # 0))

\* C5 witness: both messages went out on the second socket.
C5_Witness ==
    /\ last.op = "send"
    /\ last.sub
    /\ last.thump
    /\ last.ep = 2
    /\ cmdsSent = 1

\* C6: the UI is connected only while a subscribe-ok was applied and no
\* subscribe-fail, error event or host change came after it.
C6_ConnectedOnlyAfterOk ==
    state.connected => uiOk

\* C6 witness: connected again on the host applied in the settings dialog.
C6_Witness ==
    /\ state.connected
    /\ uiOk
    /\ cmdsSent = 1

C8_Original ==
    [][(pc = "send" /\ pc' = "recv" /\ last.op = "recv" /\ last.kind = "error")
         => last'.ep # last.ep]_vars

\* C8 (amended): every receive error, timeout or not, is a no-op: endpoint,
\* lease, timers and event queue stay as they are, and the next iteration
\* sends on the same endpoint.
C8_RecvErrorIgnored ==
    /\ [][(pc = "recv" /\ pc' = "sleep" /\ last'.kind \in {"timeout", "error"})
            => UNCHANGED <<socket, binds, current_host, subscription_expiry,
                           last_subscribe, last_thump, events>>]_vars
    /\ [][(pc = "send" /\ pc' = "recv" /\ last.op = "recv"
             /\ last.kind \in {"timeout", "error"})
            => last'.ep = last.ep]_vars

\* C8 witness: about to send on the endpoint whose receive just failed.
C8_Witness ==
    /\ pc = "send"
    /\ last.op = "recv"
    /\ last.kind = "error"
    /\ socket = last.ep

\* C9: with the command channel closed and empty the agent's next poll ends
\* the loop, with or without an endpoint; the loop ends in no other way.
C9_TerminatesOnClose ==
    /\ [](pc = "done" => (~uiAlive /\ cmds = <<>>))
    /\ []((pc = "poll" /\ ~uiAlive /\ cmds = <<>>) => ENABLED AgentDisconnected)
    /\ [][(pc = "poll" /\ ~uiAlive /\ cmds = <<>> /\ pc' # pc) => pc' = "done"]_vars
    /\ [][pc' = "done" => pc \in {"poll", "done"}]_vars

\* C9 witness: an agent without an endpoint has ended.
C9_Witness ==
    /\ pc = "done"
    /\ socket = 0
    /\ cmdsSent = 1

\* C10: messages taken as one bundle leave the same events and the same lease
\* as the same messages taken standalone in the same order.
C10_BundleAsStandalone ==
    (feed.pos = Len(feed.msgs) /\ feed.bundle # <<>>)
        => feed.bundle[1] = [expiry |-> feed.lease, evs |-> feed.evs]

\* C10 witness: a full bundle that changed the lease and emitted events.
C10_Witness ==
    /\ Len(feed.msgs) = MaxBundle
    /\ feed.pos = Len(feed.msgs)
    /\ feed.bundle # <<>>
    /\ feed.lease # feed.start
    /\ Len(feed.evs) >= 2

\* The i-th argument (from 0) of a /cuefired, when it is there and is a string.
HasString(args, i) == (i + 1) \in DOMAIN args /\ args[i + 1].t = "String"

\* C11: a /cuefired with any arguments yields exactly one cue-fired event, whose
\* number, text and color are arguments 0, 1 and 2 where these are strings, and
\* "", "" and absent where they are missing or of another type; the lease stays.
C11_CueFiredFields ==
    feed.out # <<>>
        => /\ Len(feed.out[1].evs) = 1
           /\ feed.out[1].expiry = feed.start
           /\ LET ev == feed.out[1].evs[1]
              IN  /\ ev.type = "CueFired"
                  /\ HasString(feed.args, 0) => ev.info.number = feed.args[1].v
                  /\ ~HasString(feed.args, 0) => ev.info.number = ""
                  /\ HasString(feed.args, 1) => ev.info.text = feed.args[2].v
                  /\ ~HasString(feed.args, 1) => ev.info.text = ""
                  /\ HasString(feed.args, 2) => ev.info.color = <<feed.args[3].v>>
                  /\ ~HasString(feed.args, 2) => ev.info.color = <<>>

\* C11 witness: an int where the number is expected, a string text, no color.
C11_Witness ==
    /\ feed.out # <<>>
    /\ feed.args = <<OscInt(7), OscString("Q7")>>
    /\ feed.out[1].evs = <<EvCueFired([number |-> "", text |-> "Q7", color |-> <<>>])>>

CueEvents == {ev \in AgentEvents : ev.type = "CueFired"}

\* C12: from every UI state, a cue-fired event applied twice in a row (in one
\* frame, or the second time a second later) leaves current, connected and
\* status as the first application left them; and a frame that applies the
\* cue-fired event already shown changes none of current, connected, status, host.
C12_CueFiredTwice ==
    /\ [](\A ev \in CueEvents :
            LET once == apply_event(UiNow, ev, now)
                later == apply_event(once, ev, now + 1)
                both == Drain(UiNow, <<ev, ev>>, now)
            IN  /\ later.state.current = once.state.current
                /\ later.state.connected = once.state.connected
                /\ later.status = once.status
                /\ both.state = once.state
                /\ both.status = once.status)
    /\ [][(UiFrame /\ Len(events) = 1 /\ events[1].type = "CueFired"
             /\ events[1].info = state.current)
            => /\ state'.current = state.current
               /\ state'.connected = state.connected
               /\ status' = status
               /\ host' = host]_vars

\* C12 witness: the cue shown since second 0 is about to be applied again at
\* second 1, on a connected UI.
C12_Witness ==
    /\ Len(events) = 1
    /\ events[1].type = "CueFired"
    /\ events[1].info = state.current
    /\ state.connected
    /\ state.last_rx = <<0>>
    /\ now = 1

\* C13: while the UI is alive, the event queue grows only at its tail, by the
\* events the agent emits and in the order it emits them, and shrinks only in a
\* UI frame, whose drain loop applies every pending event once, in queue order,
\* and leaves the queue empty.
C13_EventsInOrder ==
    /\ [](uiAlive => LET d == Drained IN d.log = events /\ d.rest = <<>>)
    /\ [][uiAlive' =>
            \/ /\ pc' # pc
               /\ events' = events \o (IF last' # last /\ last'.op \in {"bind", "recv"}
                                        THEN last'.evs ELSE <<>>)
            \/ /\ pc' = pc
               /\ events' = <<>>
               /\ LET d == Drained
                  IN  /\ state'.current = d.state.current
                      /\ state'.last_rx = d.state.last_rx
                      /\ cmdsSent' = cmdsSent => state'.connected = d.state.connected]_vars

\* C13 witness: three events of two emissions (a bundle's two, then a failed
\* bind's error) wait for the next frame.
C13_Witness ==
    /\ uiAlive
    /\ Len(events) = 3
    /\ events[1].type = "SubscribeOk"
    /\ events[2].type = "SubscribeFail"
    /\ events[3].type = "Error"

\* C14: an agent left without an endpoint by a failed bind is polling, idling or
\* done; until it takes a set-host command it sends nothing, receives nothing,
\* binds nothing and emits no event; and it gets an endpoint again only by the
\* bind of a set-host command it takes from the channel.
C14_IdleWithoutEndpoint ==
    /\ []((socket = 0 /\ pc # "start") => pc \in {"poll", "idle", "done"})
    /\ [][(socket = 0 /\ pc # "start" /\ ~(pc = "poll" /\ cmds # <<>>))
            => /\ socket' = 0
               /\ binds' = binds
               /\ last' = last
               /\ pc' \in {"poll", "idle", "done"}
               /\ events' = events \/ events' = <<>>]_vars
    /\ [][(socket = 0 /\ pc # "start" /\ socket' # 0)
            => /\ pc = "poll"
               /\ cmds # <<>>
               /\ cmds' = Tail(cmds)
               /\ last'.op = "bind"
               /\ last'.cmd
               /\ last'.host = Head(cmds)]_vars

\* C14 witness: the initial bind failed and the agent idles with both timers due.
C14_Witness ==
    /\ socket = 0
    /\ pc = "idle"
    /\ last.op = "bind"
    /\ ~last.cmd
    /\ last.outcome = "bind_err"
    /\ last_thump = TwoSecs
    /\ last_subscribe >= TwoSecs

\* C15: an endpoint just bound has the thump timer due and the agent on its way
\* to the send step, with no sleep or receive before it (or the thread has ended,
\* and the endpoint with it, at the first poll); the first send step on
\* an endpoint sends /thump on it (so a send step without /thump is never the
\* first on its endpoint); and a send step sends /thump exactly when 2 seconds
\* have passed since the last /thump, so two on one endpoint are 2 s apart.
C15_ThumpEveryTwoSecs ==
    /\ []((socket # 0 /\ last.op = "bind")
            => (pc \in {"poll", "send", "done"} /\ last_thump = TwoSecs))
    /\ [][(pc = "send" /\ pc' = "recv" /\ last.op = "bind")
            => (last'.thump /\ last'.ep = socket /\ socket # 0)]_vars
    /\ [][(pc = "send" /\ pc' = "recv" /\ ~last'.thump)
            => (last.op \in {"send", "recv"} /\ last.ep = last'.ep)]_vars
    /\ [](last.op = "send" => (last.thump <=> last.thumpGap >= TwoSecs))

\* C15 witness: a /thump sent alone, 2 s after the one before it, on an endpoint
\* whose lease puts the next /subscribe later.
C15_Witness ==
    /\ last.op = "send"
    /\ last.thump
    /\ ~last.sub
    /\ last.thumpGap = TwoSecs
    /\ subscription_expiry = MaxExpiry
    /\ last.ep = socket

\* Text that is empty or whitespace only.
WhiteOnly(s) == \A i \in DOMAIN s : s[i] = " "

\* h is text t without the whitespace around it.
IsTrimOf(h, t) ==
    /\ h # <<>>
    /\ h[1] # " "
    /\ h[Len(h)] # " "
    /\ \E i \in DOMAIN t :
          /\ SubSeq(t, i, i + Len(h) - 1) = h
          /\ WhiteOnly(SubSeq(t, 1, i - 1))
          /\ WhiteOnly(SubSeq(t, i + Len(h), Len(t)))

\* C16: every command in the channel is a host that is not empty and has no
\* whitespace around it; a command is placed only by an Apply click whose text
\* is not whitespace only, it carries that text trimmed, which becomes the UI's
\* host, and to_socket_addrs returned Ok for it; an Apply click on an empty or
\* whitespace-only text places no command and leaves host and config file alone.
C16_OnlyValidHostsSent ==
    /\ [](\A i \in DOMAIN cmds : IsTrimOf(cmds[i], cmds[i]))
    /\ [][Len(cmds') > Len(cmds)
            => /\ cmds' = Append(cmds, host')
               /\ feed'.resolve \in {"ok", "resolve_empty"}
               /\ ~WhiteOnly(feed'.typed)
               /\ IsTrimOf(host', feed'.typed)]_vars
    /\ [][(feed' # feed /\ WhiteOnly(feed'.typed))
            => (cmds' = cmds /\ host' = host /\ config' = config)]_vars

\* C16 witness: " b " was typed, resolved and sent as "b".
C16_Witness ==
    /\ feed = [typed |-> <<" ", "b", " ">>, resolve |-> "ok"]
    /\ cmds = <<HostB>>
    /\ host = HostB
    /\ config = <<HostB>>

\* C17: a send step (an iteration that has an endpoint) sends /subscribe exactly
\* when the time since the last /subscribe is at least I, with I = 2 s for lease
\* 0 and max(lease div 2, 2) s otherwise; it is then sent on the endpoint held,
\* and never less than 2 s after the one before.
C17_SubscribeWhenDue ==
    last.op = "send"
        => LET lease == subscription_expiry
               I == IF lease = 0 THEN 2 ELSE Max(lease \div 2, 2)
           IN  /\ last.sub <=> last.subGap >= I
               /\ last.sub => last.subGap >= 2
               /\ last.ep # 0
               /\ last.ep = socket

\* C17 witness: 2 s after the last /subscribe, a send step under the largest
\* lease sends none.
C17_Witness ==
    /\ last.op = "send"
    /\ ~last.sub
    /\ last.subGap = 2
    /\ subscription_expiry = MaxExpiry

\* C18: from every UI state, a thump event changes nothing but last_rx, and a
\* subscribe-ok, subscribe-fail or error event changes neither last_rx nor
\* current; last_rx changes only in a frame that applies a thump or cue-fired
\* event, to the clock reading of that frame, and never to an earlier reading.
C18_LastRxOnlyByThumpAndCue ==
    /\ [](\A ev \in AgentEvents :
            LET after == apply_event(UiNow, ev, now)
            IN  /\ ev.type = "Thump"
                     => /\ after.state.current = state.current
                        /\ after.state.connected = state.connected
                        /\ after.status = status
                        /\ after.state.last_rx = <<now>>
                /\ ev.type \in {"SubscribeOk", "SubscribeFail", "Error"}
                     => /\ after.state.last_rx = state.last_rx
                        /\ after.state.current = state.current)
    /\ [][state'.last_rx # state.last_rx
            => /\ \E i \in DOMAIN events : events[i].type \in {"Thump", "CueFired"}
               /\ events' = <<>>
               /\ state'.last_rx = <<now>>
               /\ state.last_rx # None => state.last_rx[1] <= now]_vars

\* C18 witness: a thump applied at second 1 on a UI that is subscribed and has
\* seen no cue.
C18_Witness ==
    /\ state.last_rx = <<1>>
    /\ state.current = CueInfoDefault
    /\ state.connected
    /\ status = <<"Subscribed">>

\* C19 (as stated): the subscribe-ok that made the UI connected came from the
\* endpoint of the UI's host.  Apply clears connected and the agent changes host
\* and endpoint only on the UI's command, so this makes a connected UI one whose
\* every command has been taken and whose host the agent holds an endpoint for.
C19_Original ==
    (uiAlive /\ state.connected)
        => (cmds = <<>> /\ current_host = host /\ socket # 0)

\* C20: an Apply click on a text that trims to the UI's host places no command
\* and leaves host, config file, status and connected as the frame's drain left
\* them, and the agent's endpoint as it was; and every set-host command the
\* agent takes names a host other than the one it holds, so an agent left idle
\* by a failed bind is not bound again to the same host.
C20_SameHostNotResent ==
    /\ [][(pc' = pc /\ uiAlive')
            => \A typed \in HostEdits :
                  (IsTrimOf(host, typed) /\ ApplyText(typed, FALSE))
                      => LET d == Drained
                         IN  /\ cmds' = cmds
                             /\ cmdsSent' = cmdsSent
                             /\ host' = host
                             /\ config' = config
                             /\ status' = d.status
                             /\ state' = d.state
                             /\ socket' = socket
                             /\ binds' = binds]_vars
    /\ [][Len(cmds') > Len(cmds) => (host' # host /\ cmds' = Append(cmds, host'))]_vars
    /\ [][(last' # last /\ last'.op = "bind" /\ last'.cmd)
            => last'.host # current_host]_vars

\* C20 witness: the agent idles without an endpoint for the UI's host, which it
\* failed to bind on the UI's command; the UI shows the error and can only
\* re-apply that host or name another.
C20_Witness ==
    /\ uiAlive
    /\ socket = 0
    /\ pc = "idle"
    /\ cmds = <<>>
    /\ cmdsSent = 1
    /\ current_host = host
    /\ status[1] = "Error"
    /\ ~state.connected

====
